---- MODULE Spec2Model ----
(***************************************************************************)
(* A model of ci-evidence-pack: the staging and packing of an evidence     *)
(* bundle (pack.py, manifest.py) and its strict verification (verify.py).  *)
(*                                                                         *)
(* Text is modelled as a sequence of one-character strings, a path as the  *)
(* sequence of its segments (pathlib's parts), a directory tree as a       *)
(* function from paths to nodes.  SHA-256 is modelled as an injective,     *)
(* whitespace-free encoding of the content (no collisions).                *)
(***************************************************************************)
EXTENDS Integers, Sequences, FiniteSets, TLC

\* ------------------------------------------------------------------ text

\* The characters that occur in the model, in code point order.
AsciiOrder ==
    << "\n", " ", "#", "%", "&", "-", ".", "/", "0", "1", "2", "3", "4", "5",
       "6", "7", "8", "9", ":", "D", "S", "_", "a", "b", "c", "d", "e", "f",
       "g", "h", "i", "j", "k", "l", "m", "n", "o", "p", "q", "r", "s", "t",
       "u", "v", "w", "x", "y", "z" >>

OrdTable ==
    [c \in { AsciiOrder[i] : i \in 1..Len(AsciiOrder) } |->
        CHOOSE i \in 1..Len(AsciiOrder) : AsciiOrder[i] = c]

\* ord(c)
Ord(c) == OrdTable[c]

\* str.isspace of one character.
IsSpace(c) == c \in {" ", "\n"}

RECURSIVE LStrip(_)
LStrip(s) ==
    IF s # <<>> /\ IsSpace(Head(s)) THEN LStrip(Tail(s)) ELSE s

RECURSIVE RStrip(_)
RStrip(s) ==
    IF s # <<>> /\ IsSpace(s[Len(s)]) THEN RStrip(SubSeq(s, 1, Len(s) - 1)) ELSE s

\* str.strip()
Strip(s) == RStrip(LStrip(s))

\* Python's < on str: lexicographic by code point.
RECURSIVE StrLessFrom(_, _, _)
StrLessFrom(s, t, i) ==
    IF i > Len(t) THEN FALSE
    ELSE IF i > Len(s) THEN TRUE
    ELSE IF s[i] # t[i] THEN Ord(s[i]) < Ord(t[i])
    ELSE StrLessFrom(s, t, i + 1)

StrLess(s, t) == StrLessFrom(s, t, 1)

\* str.split(sep, 1) for the two-space separator: at the first occurrence.
RECURSIVE FindTwoSpaces(_, _)
FindTwoSpaces(s, i) ==
    IF i + 1 > Len(s) THEN 0
    ELSE IF s[i] = " " /\ s[i + 1] = " " THEN i
    ELSE FindTwoSpaces(s, i + 1)

SplitTwoSpaces(s) ==
    LET i == FindTwoSpaces(s, 1)
    IN  IF i = 0 THEN << s >>
        ELSE << SubSeq(s, 1, i - 1), SubSeq(s, i + 2, Len(s)) >>

\* The lines of a text file as iteration over the file yields them: each
\* line keeps its newline; a last line without one is yielded as it is.
LineEnd(text, from) ==
    IF \E i \in from..Len(text) : text[i] = "\n"
    THEN CHOOSE i \in from..Len(text) :
             text[i] = "\n" /\ \A j \in from..(i - 1) : text[j] # "\n"
    ELSE Len(text)

RECURSIVE FileLinesFrom(_, _)
FileLinesFrom(text, from) ==
    IF from > Len(text) THEN <<>>
    ELSE << SubSeq(text, from, LineEnd(text, from)) >>
             \o FileLinesFrom(text, LineEnd(text, from) + 1)

FileLines(text) == FileLinesFrom(text, 1)

\* ----------------------------------------------------------------- paths

Slash == << "/" >>
DotDot == << ".", "." >>
Dot == << "." >>

\* The segments of a string between slashes (str.split("/")).
RECURSIVE SplitSlash(_, _)
SplitSlash(s, cur) ==
    IF s = <<>> THEN << cur >>
    ELSE IF Head(s) = "/" THEN << cur >> \o SplitSlash(Tail(s), <<>>)
    ELSE SplitSlash(Tail(s), Append(cur, Head(s)))

RECURSIVE DropEmptyAndDot(_)
DropEmptyAndDot(segs) ==
    IF segs = <<>> THEN <<>>
    ELSE IF Head(segs) = <<>> \/ Head(segs) = Dot THEN DropEmptyAndDot(Tail(segs))
    ELSE << Head(segs) >> \o DropEmptyAndDot(Tail(segs))

\* pathlib.PurePosixPath(s).parts: the root "/" is a part of its own, empty
\* and "." segments are dropped, ".." segments are kept.
Parts(s) ==
    (IF s # <<>> /\ Head(s) = "/" THEN << Slash >> ELSE <<>>)
        \o DropEmptyAndDot(SplitSlash(s, <<>>))

IsAbsolute(parts) == parts # <<>> /\ Head(parts) = Slash

RECURSIVE JoinSlash(_)
JoinSlash(parts) ==
    IF parts = <<>> THEN <<>>
    ELSE IF Len(parts) = 1 THEN Head(parts)
    ELSE Head(parts) \o Slash \o JoinSlash(Tail(parts))

\* str(path)
PathStr(parts) ==
    IF parts = <<>> THEN Dot
    ELSE IF IsAbsolute(parts) THEN Slash \o JoinSlash(Tail(parts))
    ELSE JoinSlash(parts)

\* path.name
PathName(parts) ==
    IF parts = <<>> \/ parts = << Slash >> THEN <<>> ELSE parts[Len(parts)]

\* path.parent
Parent(parts) == SubSeq(parts, 1, Len(parts) - 1)

IsPrefix(p, q) == Len(p) <= Len(q) /\ SubSeq(q, 1, Len(p)) = p

\* Python's < on PurePosixPath: the lists of parts, compared lexicographically.
RECURSIVE PathLessFrom(_, _, _)
PathLessFrom(p, q, i) ==
    IF i > Len(q) THEN FALSE
    ELSE IF i > Len(p) THEN TRUE
    ELSE IF p[i] # q[i] THEN StrLess(p[i], q[i])
    ELSE PathLessFrom(p, q, i + 1)

PathLess(p, q) == PathLessFrom(p, q, 1)

Reverse(seq) == [i \in 1..Len(seq) |-> seq[Len(seq) + 1 - i]]

\* sorted() of a list of paths (insertion into the sorted prefix).
RECURSIVE InsertPath(_, _)
InsertPath(sorted, p) ==
    IF sorted = <<>> THEN << p >>
    ELSE IF PathLess(p, Head(sorted)) THEN << p >> \o sorted
    ELSE << Head(sorted) >> \o InsertPath(Tail(sorted), p)

RECURSIVE SortPaths(_)
SortPaths(seq) ==
    IF seq = <<>> THEN <<>> ELSE InsertPath(SortPaths(Tail(seq)), Head(seq))

\* sorted() of a list of strings.
RECURSIVE InsertStr(_, _)
InsertStr(sorted, s) ==
    IF sorted = <<>> THEN << s >>
    ELSE IF StrLess(s, Head(sorted)) THEN << s >> \o sorted
    ELSE << Head(sorted) >> \o InsertStr(Tail(sorted), s)

RECURSIVE SortStrs(_)
SortStrs(seq) ==
    IF seq = <<>> THEN <<>> ELSE InsertStr(SortStrs(Tail(seq)), Head(seq))

\* ------------------------------------------------------------ file trees

\* A tree maps the paths of its entries to nodes: a directory, or a regular
\* file with its content and modification time.
EmptyTree == << >>
DirNode == [kind |-> "dir"]
FileNode(content, mtime) == [kind |-> "file", content |-> content, mtime |-> mtime]

Exists(tree, p) == p \in DOMAIN tree
IsFile(tree, p) == Exists(tree, p) /\ tree[p].kind = "file"
IsDir(tree, p) == Exists(tree, p) /\ tree[p].kind = "dir"

Put(tree, p, node) ==
    [q \in DOMAIN tree \cup {p} |-> IF q = p THEN node ELSE tree[q]]

Remove(tree, p) == [q \in DOMAIN tree \ {p} |-> tree[q]]

\* The order in which a directory walk yields the entries is the file
\* system's: here either of two opposite orders, chosen by the environment.
RECURSIVE SetToPathSeq(_)
SetToPathSeq(S) ==
    IF S = {} THEN <<>>
    ELSE LET m == CHOOSE x \in S : TRUE
         IN  << m >> \o SetToPathSeq(S \ {m})

\* root.rglob("*"): every entry below the root, in the walk's order.
Rglob(tree, rev) ==
    IF rev THEN Reverse(SetToPathSeq(DOMAIN tree)) ELSE SetToPathSeq(DOMAIN tree)

\* --------------------------------------------------------------- digests

\* calculate_file_hash: the digest of a content, as text.  The encoding is
\* injective and its result holds no white space, as a hex digest does.
HashChar(c) == IF c = " " THEN "%" ELSE IF c = "\n" THEN "&" ELSE c

calculate_file_hash(content) ==
    << "#" >> \o [i \in 1..Len(content) |-> HashChar(content[i])]

\* -------------------------------------------------------------- manifest

ManifestDir == << << "m", "a", "n", "i", "f", "e", "s", "t" >> >>
Sha256sumName == << "s", "h", "a", "2", "5", "6", "s", "u", "m", ".", "t", "x", "t" >>
ManifestPath == Append(ManifestDir, Sha256sumName)
DSStore == << ".", "D", "S", "_", "S", "t", "o", "r", "e" >>

\* manifest.py line 37: the entries generate_manifest leaves out.
SkippedByManifest(rel_path) ==
    Head(rel_path) = Head(ManifestDir) /\ PathName(rel_path) = Sha256sumName

\* A Python dict, in insertion order: a sequence of <<key, value>> with no
\* key twice; assigning an existing key keeps its place.
DictKeys(d) == [i \in 1..Len(d) |-> d[i][1]]
DictHas(d, k) == \E i \in 1..Len(d) : d[i][1] = k
DictGet(d, k) == d[CHOOSE i \in 1..Len(d) : d[i][1] = k][2]
DictPut(d, k, v) ==
    IF DictHas(d, k)
    THEN [i \in 1..Len(d) |-> IF d[i][1] = k THEN << k, v >> ELSE d[i]]
    ELSE Append(d, << k, v >>)

\* manifest.py lines 30-40: the dictionary of hashes, filled in the order of
\* the sorted walk.
RECURSIVE CollectHashes(_, _, _)
CollectHashes(tree, walk, hashes) ==
    IF walk = <<>> THEN hashes
    ELSE LET p == Head(walk)
         IN  IF ~IsFile(tree, p) \/ SkippedByManifest(p)
             THEN CollectHashes(tree, Tail(walk), hashes)
             ELSE CollectHashes(tree, Tail(walk),
                      DictPut(hashes, PathStr(p), calculate_file_hash(tree[p].content)))

\* manifest.py line 47: one line of the manifest.
ManifestLine(digest, path) == digest \o << " ", " " >> \o path \o << "\n" >>

RECURSIVE ConcatAll(_)
ConcatAll(seqs) ==
    IF seqs = <<>> THEN <<>> ELSE Head(seqs) \o ConcatAll(Tail(seqs))

\* manifest.py lines 43-47: the text written to manifest/sha256sum.txt.
ManifestText(hashes) ==
    LET keys == SortStrs(DictKeys(hashes))
    IN  ConcatAll([i \in 1..Len(keys) |-> ManifestLine(DictGet(hashes, keys[i]), keys[i])])

\* manifest.py lines 17-47: the tree after generate_manifest(bundle_root);
\* rev is the order of the directory walk, now the time of the write.
generate_manifest(tree, rev, now) ==
    LET withDir == IF Exists(tree, ManifestDir) THEN tree ELSE Put(tree, ManifestDir, DirNode)
        hashes == CollectHashes(withDir, SortPaths(Rglob(withDir, rev)), <<>>)
    IN  Put(withDir, ManifestPath, FileNode(ManifestText(hashes), now))

\* ----------------------------------------------------- strict verifier

\* verify.py lines 66-75: the expected dictionary read from the manifest.
RECURSIVE LoadExpected(_, _)
LoadExpected(lines, expected) ==
    IF lines = <<>> THEN expected
    ELSE LET line == Strip(Head(lines))
             parts == SplitTwoSpaces(line)
         IN  IF line = <<>> \/ Len(parts) # 2
             THEN LoadExpected(Tail(lines), expected)
             ELSE LoadExpected(Tail(lines), DictPut(expected, parts[2], parts[1]))

\* What verify_manifest ends with: a return (exc = "none") or a raise.
Verdict(exc, cause, path, exp, got) ==
    [exc |-> exc, cause |-> cause, path |-> path, expected |-> exp, got |-> got]

VerdictOk == Verdict("none", "ok", <<>>, <<>>, <<>>)

\* A walk that looks for unexpected files only and compares no digest.
RECURSIVE WalkExtractedNoDigest(_, _, _, _)
WalkExtractedNoDigest(tree, walk, expected, found) ==
    IF walk = <<>> THEN [verdict |-> VerdictOk, found |-> found]
    ELSE LET p == Head(walk)
             rel_str == PathStr(p)
         IN  IF ~IsFile(tree, p) \/ PathName(p) = DSStore \/ rel_str = PathStr(ManifestPath)
             THEN WalkExtractedNoDigest(tree, Tail(walk), expected, found)
             ELSE IF ~DictHas(expected, rel_str)
             THEN [verdict |-> Verdict("ValueError", "unexpected_file", rel_str, <<>>, <<>>),
                   found |-> found \cup {rel_str}]
             ELSE WalkExtractedNoDigest(tree, Tail(walk), expected, found \cup {rel_str})

\* verify.py lines 84-104: the walk of the extracted tree; found is the set
\* found_paths so far.  The result is the verdict of the first violation, or
\* the set of found paths.
RECURSIVE WalkExtracted(_, _, _, _)
WalkExtracted(tree, walk, expected, found) ==
    IF walk = <<>> THEN [verdict |-> VerdictOk, found |-> found]
    ELSE LET p == Head(walk)
             rel_str == PathStr(p)
         IN  IF ~IsFile(tree, p) \/ PathName(p) = DSStore \/ rel_str = PathStr(ManifestPath)
             THEN WalkExtracted(tree, Tail(walk), expected, found)
             ELSE IF ~DictHas(expected, rel_str)
             THEN [verdict |-> Verdict("ValueError", "unexpected_file", rel_str, <<>>, <<>>),
                   found |-> found \cup {rel_str}]
             ELSE IF calculate_file_hash(tree[p].content) # DictGet(expected, rel_str)
             THEN [verdict |-> Verdict("ValueError", "hash_mismatch", rel_str,
                                       DictGet(expected, rel_str),
                                       calculate_file_hash(tree[p].content)),
                   found |-> found \cup {rel_str}]
             ELSE WalkExtracted(tree, Tail(walk), expected, found \cup {rel_str})

\* A verifier that does not look for missing files.
FirstMissingUnchecked(keys, found) == VerdictOk

\* verify.py lines 107-109: the first expected path that was not found.
RECURSIVE FirstMissing(_, _)
FirstMissing(keys, found) ==
    IF keys = <<>> THEN VerdictOk
    ELSE IF Head(keys) \notin found
    THEN Verdict("ValueError", "missing_file", Head(keys), <<>>, <<>>)
    ELSE FirstMissing(Tail(keys), found)

\* verify.py lines 60-112: verify_manifest(extracted_dir); rev is the order of
\* the directory walk.
verify_manifest(tree, rev) ==
    IF ~Exists(tree, ManifestPath)
    THEN Verdict("ValueError", "manifest_missing", <<>>, <<>>, <<>>)
    ELSE IF ~IsFile(tree, ManifestPath)
    THEN Verdict("IsADirectoryError", "manifest_unreadable", <<>>, <<>>, <<>>)
    ELSE LET expected == LoadExpected(FileLines(tree[ManifestPath].content), <<>>)
             walked == WalkExtracted(tree, Rglob(tree, rev), expected, {})
         IN  IF walked.verdict.exc # "none" THEN walked.verdict
             ELSE FirstMissing(DictKeys(expected), walked.found)

\* ------------------------------------------------------------- staging

ArtifactsDir == << << "a", "r", "t", "i", "f", "a", "c", "t", "s" >> >>
MetadataDir == << << "m", "e", "t", "a", "d", "a", "t", "a" >> >>
DepsDir == << << "d", "e", "p", "s" >> >>
SbomDir == << << "s", "b", "o", "m" >> >>
MetadataJson == Append(MetadataDir, << "m", "e", "t", "a", "d", "a", "t", "a", ".", "j", "s", "o", "n" >>)
RunJson == Append(MetadataDir, << "r", "u", "n", ".", "j", "s", "o", "n" >>)
GitJson == Append(MetadataDir, << "g", "i", "t", ".", "j", "s", "o", "n" >>)
PipFreezeTxt == Append(DepsDir, << "p", "i", "p", "_", "f", "r", "e", "e", "z", "e", ".", "t", "x", "t" >>)
SbomCdxJson == Append(SbomDir, << "s", "b", "o", "m", ".", "c", "d", "x", ".", "j", "s", "o", "n" >>)
SbomSyftJson == Append(SbomDir, << "s", "b", "o", "m", ".", "s", "y", "f", "t", ".", "j", "s", "o", "n" >>)
InputsJson == Append(ManifestDir, << "i", "n", "p", "u", "t", "s", ".", "j", "s", "o", "n" >>)

\* The repository root, resolved (pack.py line 99).
RepoRoot == << Slash, << "r" >> >>

\* Path.resolve() of an absolute path: ".." steps to the parent, and the
\* parent of the root is the root.
RECURSIVE ResolveAbs(_, _)
ResolveAbs(parts, acc) ==
    IF parts = <<>> THEN acc
    ELSE IF Head(parts) = DotDot
    THEN ResolveAbs(Tail(parts), IF Len(acc) <= 1 THEN acc ELSE Parent(acc))
    ELSE ResolveAbs(Tail(parts), Append(acc, Head(parts)))

\* base / other (pathlib): an absolute right operand replaces the left one.
PathJoin(base, other) == IF IsAbsolute(other) THEN other ELSE base \o other

\* Where the operating system finds a path given relative to the staging
\* directory: esc when a ".." step leaves the staging directory.
RECURSIVE ResolveRel(_, _)
ResolveRel(parts, acc) ==
    IF parts = <<>> THEN [esc |-> FALSE, path |-> acc]
    ELSE IF Head(parts) = DotDot
    THEN IF acc = <<>> THEN [esc |-> TRUE, path |-> parts]
         ELSE ResolveRel(Tail(parts), Parent(acc))
    ELSE ResolveRel(Tail(parts), Append(acc, Head(parts)))

\* The state of the staging area: the tree below the staging directory, the
\* paths written outside of it, and the error raised, if any.
Staged(tree, outside, err) == [tree |-> tree, outside |-> outside, err |-> err]

\* Writes one node at a path given relative to the staging directory.
PutAt(st, parts, node) ==
    LET r == ResolveRel(parts, <<>>)
    IN  IF st.err # "none" THEN st
        ELSE IF r.esc THEN Staged(st.tree, st.outside \cup {parts}, "none")
        ELSE IF r.path = <<>> THEN st
        ELSE IF node.kind = "dir"
        THEN IF IsFile(st.tree, r.path) THEN Staged(st.tree, st.outside, "FileExistsError")
             ELSE Staged(Put(st.tree, r.path, DirNode), st.outside, "none")
        ELSE IF IsDir(st.tree, r.path) THEN Staged(st.tree, st.outside, "IsADirectoryError")
        ELSE Staged(Put(st.tree, r.path, node), st.outside, "none")

\* Path.mkdir(parents=True, exist_ok=True): every prefix of the path.
RECURSIVE MkdirParents(_, _, _)
MkdirParents(st, parts, k) ==
    IF k > Len(parts) THEN st
    ELSE MkdirParents(PutAt(st, SubSeq(parts, 1, k), DirNode), parts, k + 1)

\* shutil.copytree(src, dest, dirs_exist_ok=True) and shutil.copy2(src, dest)
\* for each entry of the source: content and modification time are copied.
RECURSIVE CopyEntries(_, _, _, _, _)
CopyEntries(st, host, src, dest, todo) ==
    IF todo = <<>> THEN st
    ELSE LET q == Head(todo)
             rel == SubSeq(q, Len(src) + 1, Len(q))
         IN  CopyEntries(PutAt(st, dest \o rel, host[q]), host, src, dest, Tail(todo))

copytree(st, host, src, dest) ==
    CopyEntries(st, host, src, dest,
                SortPaths(SetToPathSeq({ q \in DOMAIN host : IsPrefix(src, q) })))

copy2(st, host, src, dest) ==
    LET r == ResolveRel(dest, <<>>)
    IN  IF ~r.esc /\ IsDir(st.tree, r.path)
        THEN PutAt(st, Append(dest, PathName(src)), host[src])
        ELSE PutAt(st, dest, host[src])

\* A build that puts every include into the log and copies nothing.
StageIncludeUnseen(st, log, host, inc_str) ==
    [st |-> st, log |-> Append(log, [src |-> inc_str, type |-> "file"])]

\* pack.py lines 112-148: one round of the loop over the includes.  The
\* result is the staging area and the input log after it.
StageInclude(st, log, host, inc_str) ==
    LET src_path == ResolveAbs(PathJoin(RepoRoot, Parts(inc_str)), <<>>)
        given == Parts(inc_str)
        inside == IsPrefix(RepoRoot, given)
        clean_rel == IF IsAbsolute(given) /\ inside
                     THEN SubSeq(given, Len(RepoRoot) + 1, Len(given))
                     ELSE given
        dest_path == ArtifactsDir \o clean_rel
        made == MkdirParents(st, Parent(dest_path), 1)
    IN  IF ~Exists(host, src_path) THEN [st |-> st, log |-> log]
        ELSE IF IsAbsolute(given) /\ ~inside THEN [st |-> st, log |-> log]
        ELSE IF IsDir(host, src_path)
        THEN [st |-> copytree(made, host, src_path, dest_path),
              log |-> Append(log, [src |-> PathStr(clean_rel), type |-> "dir"])]
        ELSE [st |-> copy2(made, host, src_path, dest_path),
              log |-> Append(log, [src |-> PathStr(clean_rel), type |-> "file"])]

\* ------------------------------------------------------------ json files

Digits == << "0", "1", "2", "3", "4", "5", "6", "7", "8", "9" >>

\* str(n) of a natural number.
RECURSIVE IntStr(_)
IntStr(n) == IF n < 10 THEN << Digits[n + 1] >> ELSE IntStr(n \div 10) \o << Digits[(n % 10) + 1] >>

\* sorted(input_log, key=src): stable, by the src string.
RECURSIVE InsertLog(_, _)
InsertLog(sorted, e) ==
    IF sorted = <<>> THEN << e >>
    ELSE IF StrLess(e.src, Head(sorted).src) THEN << e >> \o sorted
    ELSE << Head(sorted) >> \o InsertLog(Tail(sorted), e)

RECURSIVE SortLog(_)
SortLog(log) ==
    IF log = <<>> THEN <<>>
    ELSE InsertLog(SortLog(SubSeq(log, 1, Len(log) - 1)), log[Len(log)])

\* util.py lines 141-145 (stable_json_write) for manifest/inputs.json: one
\* record per entry, in the order of the list.
InputsJsonText(log) ==
    ConcatAll([i \in 1..Len(log) |->
        log[i].src \o << ":" >> \o (IF log[i].type = "dir" THEN << "d" >> ELSE << "f" >>)
                  \o << "\n" >>])

\* pack.py lines 160-165: metadata/metadata.json.
MetadataJsonText(epoch) == << "v", ":" >> \o IntStr(epoch) \o << "\n" >>

\* pack.py lines 168-181: metadata/run.json; only the keys with a truthy
\* value are kept (none of the GITHUB_* variables is set here).
RunJsonText(epoch) ==
    IF epoch = 0 THEN << "\n" >> ELSE << "e", ":" >> \o IntStr(epoch) \o << "\n" >>

\* ------------------------------------------------------------- archive

\* One member of a tar archive.
TarInfo(name, type, content, linkname, mtime, uid, gid, uname, gname) ==
    [name |-> name, type |-> type, content |-> content, linkname |-> linkname,
     mtime |-> mtime, uid |-> uid, gid |-> gid, uname |-> uname, gname |-> gname]

\* The user the build runs as.
BuildUser == [uid |-> 1000, gid |-> 1000, uname |-> << "c", "i" >>, gname |-> << "c", "i" >>]

\* tarfile.gettarinfo(p, arcname): the member as the file system has it; a
\* directory's modification time is that of the build.
gettarinfo(tree, p, arcname, now) ==
    IF tree[p].kind = "dir"
    THEN TarInfo(arcname, "dir", <<>>, <<>>, now,
                 BuildUser.uid, BuildUser.gid, BuildUser.uname, BuildUser.gname)
    ELSE TarInfo(arcname, "reg", tree[p].content, <<>>, tree[p].mtime,
                 BuildUser.uid, BuildUser.gid, BuildUser.uname, BuildUser.gname)

\* A normalisation that leaves the modification time as the file system
\* has it.
normalize_tarinfo_keeping_mtime(tarinfo, epoch) ==
    [tarinfo EXCEPT !.uid = 0, !.gid = 0, !.uname = <<>>, !.gname = <<>>]

\* pack.py lines 75-82.
normalize_tarinfo(tarinfo, epoch) ==
    [tarinfo EXCEPT !.uid = 0, !.gid = 0, !.uname = <<>>, !.gname = <<>>, !.mtime = epoch]

\* pack.py lines 244-249: the members added for the first k entries of the
\* sorted walk.
RECURSIVE TarMembers(_, _, _, _, _)
TarMembers(tree, all_files, k, epoch, now) ==
    IF k = 0 THEN <<>>
    ELSE LET p == all_files[k]
             before == TarMembers(tree, all_files, k - 1, epoch, now)
         IN  IF PathName(p) = DSStore THEN before
             ELSE Append(before, normalize_tarinfo(gettarinfo(tree, p, PathStr(p), now), epoch))

\* pack.py line 244.
AllFiles(tree, rev) == SortPaths(Rglob(tree, rev))

\* pack.py lines 238-241: the gzip wrapper of the archive.
GzipHeader == [filename |-> <<>>, mtime |-> 0]

\* The bytes of the bundle file: the gzip header and the tar members written
\* so far; closed when the archive was written to its end.
Bundle(members, closed) ==
    [exists |-> TRUE, gzip |-> GzipHeader, members |-> members, closed |-> closed]

\* util.py lines 40-46 (compute_file_sha256) of a bundle file.
BundleSha(bundle) == [sha_of |-> bundle]

\* --------------------------------------------------------- safe extractor

LinkNode(target) == [kind |-> "link", target |-> target]

\* The destination of an extraction: the tree below the destination
\* directory, the member names written outside of it, the members extracted
\* so far, and the exception raised, if any, with the member it names.
Extracted(tree, outside, written, err, offender) ==
    [tree |-> tree, outside |-> outside, written |-> written, err |-> err,
     offender |-> offender]

EmptyDest == Extracted(EmptyTree, {}, <<>>, "none", <<>>)

\* Where the operating system finds a member name given relative to the
\* destination directory: esc when the name is absolute, when a ".." step
\* leaves the destination, or when the way leads through a link that does.
RECURSIVE ResolveDest(_, _, _)
ResolveDest(tree, parts, acc) ==
    IF parts = <<>> THEN [esc |-> FALSE, path |-> acc]
    ELSE IF Head(parts) = Slash THEN [esc |-> TRUE, path |-> parts]
    ELSE IF Head(parts) = DotDot
    THEN IF acc = <<>> THEN [esc |-> TRUE, path |-> parts]
         ELSE ResolveDest(tree, Tail(parts), Parent(acc))
    ELSE LET next == Append(acc, Head(parts))
         IN  IF Exists(tree, next) /\ tree[next].kind = "link" /\ Tail(parts) # <<>>
             THEN LET target == Parts(tree[next].target)
                  IN  IF IsAbsolute(target) \/ \E i \in 1..Len(target) : target[i] = DotDot
                      THEN [esc |-> TRUE, path |-> parts]
                      ELSE ResolveDest(tree, Tail(parts), acc \o target)
             ELSE ResolveDest(tree, Tail(parts), next)

\* Whether a proper prefix of the path is something else than a directory.
ThroughFile(tree, path) ==
    \E k \in 1..(Len(path) - 1) :
        Exists(tree, SubSeq(path, 1, k)) /\ tree[SubSeq(path, 1, k)].kind # "dir"

RECURSIVE MakeDirs(_, _, _)
MakeDirs(tree, path, k) ==
    IF k > Len(path) THEN tree
    ELSE MakeDirs(Put(tree, SubSeq(path, 1, k), DirNode), path, k + 1)

\* tar.extract(member, path=path, set_attrs=False) (verify.py line 27): the
\* member is written where its name leads; attributes are not restored.
TarExtract(dest, member) ==
    LET r == ResolveDest(dest.tree, Parts(member.name), <<>>)
        withDirs == MakeDirs(dest.tree, Parent(r.path), 1)
        node == IF member.type = "reg" THEN FileNode(member.content, 0)
                ELSE IF member.type = "dir" THEN DirNode
                ELSE LinkNode(member.linkname)
    IN  IF r.esc
        THEN Extracted(dest.tree, dest.outside \cup {member.name},
                       Append(dest.written, member), "none", <<>>)
        ELSE IF r.path = <<>>
        THEN Extracted(dest.tree, dest.outside, Append(dest.written, member), "none", <<>>)
        ELSE IF ThroughFile(dest.tree, r.path)
        THEN Extracted(dest.tree, dest.outside, dest.written, "NotADirectoryError", member.name)
        ELSE IF member.type = "reg" /\ IsDir(dest.tree, r.path)
        THEN Extracted(dest.tree, dest.outside, dest.written, "IsADirectoryError", member.name)
        ELSE IF member.type = "dir" /\ Exists(dest.tree, r.path)
        THEN IF IsDir(dest.tree, r.path)
             THEN Extracted(dest.tree, dest.outside, Append(dest.written, member), "none", <<>>)
             ELSE Extracted(dest.tree, dest.outside, dest.written, "FileExistsError", member.name)
        ELSE Extracted(Put(withDirs, r.path, node), dest.outside,
                       Append(dest.written, member), "none", <<>>)

\* The rules without the one on ".." segments.
RejectionWithoutTraversal(member) ==
    IF IsAbsolute(Parts(member.name)) THEN "Unsafe absolute path"
    ELSE IF member.type = "sym" \/ member.type = "lnk"
    THEN "Unsafe symlink/hardlink blocked"
    ELSE "none"

\* verify.py lines 15-24: the rule that rejects a member, "none" if none.
Rejection(member) ==
    LET member_path == Parts(member.name)
    IN  IF IsAbsolute(member_path) THEN "Unsafe absolute path"
        ELSE IF \E i \in 1..Len(member_path) : member_path[i] = DotDot
        THEN "Unsafe path traversal"
        ELSE IF member.type = "sym" \/ member.type = "lnk"
        THEN "Unsafe symlink/hardlink blocked"
        ELSE "none"

\* verify.py lines 14-27: one round of safe_extract's loop.
SafeExtractMember(dest, member) ==
    IF Rejection(member) # "none"
    THEN Extracted(dest.tree, dest.outside, dest.written, Rejection(member), member.name)
    ELSE TarExtract(dest, member)

\* verify.py lines 10-27: safe_extract(tar, path), from member i on.
RECURSIVE safe_extract(_, _, _)
safe_extract(members, dest, i) ==
    IF i > Len(members) \/ dest.err # "none" THEN dest
    ELSE safe_extract(members, SafeExtractMember(dest, members[i]), i + 1)

\* ---------------------------------------------------------- verify_bundle

NoError == Verdict("none", "none", <<>>, <<>>, <<>>)

\* verify.py lines 122-128.
InitialResult ==
    [signature_verified |-> "unset", manifest_verified |-> FALSE, error |-> NoError,
     raised |-> "none"]

\* A signature check that lets everything through.
verify_cosign_skipped(tools, sigValid) == "none"

\* verify.py lines 29-58: verify_cosign; "none" when it returns.
verify_cosign(tools, sigValid) ==
    IF "cosign" \notin tools THEN "Cosign binary missing."
    ELSE IF ~sigValid THEN "Signature INVALID."
    ELSE "none"

\* verify.py lines 130-150: the result after the first phase, and whether
\* verify_bundle returns there.
SignaturePhase(present, sig, cert, tools, sigValid) ==
    IF ~present
    THEN [result |-> [InitialResult EXCEPT
                        !.error = Verdict("none", "bundle_not_found", <<>>, <<>>, <<>>)],
          returns |-> TRUE]
    ELSE IF sig /\ cert
    THEN IF verify_cosign(tools, sigValid) # "none"
         THEN [result |-> [InitialResult EXCEPT
                        !.signature_verified = "false",
                        !.error = Verdict("RuntimeError", verify_cosign(tools, sigValid),
                                          <<>>, <<>>, <<>>)],
               returns |-> TRUE]
         ELSE [result |-> [InitialResult EXCEPT !.signature_verified = "true"],
               returns |-> FALSE]
    ELSE IF sig \/ cert
    THEN [result |-> [InitialResult EXCEPT
                        !.error = Verdict("none", "sig_and_cert_required", <<>>, <<>>, <<>>)],
          returns |-> TRUE]
    ELSE [result |-> InitialResult, returns |-> FALSE]

\* An extraction failure that records no cause.
ExtractionFailedSilently(result, dest) == result

\* verify.py lines 155-160: the result when the extraction raised.
ExtractionFailed(result, dest) ==
    [result EXCEPT !.error = Verdict("Exception", dest.err, dest.offender, <<>>, <<>>)]

\* verify.py lines 162-168: the result of the manifest phase; an exception
\* that is no ValueError leaves verify_bundle.
ManifestPhase(result, tree, rev) ==
    LET v == verify_manifest(tree, rev)
    IN  IF v.exc = "none" THEN [result EXCEPT !.manifest_verified = TRUE]
        ELSE IF v.exc = "ValueError"
        THEN [result EXCEPT !.manifest_verified = FALSE, !.error = v]
        ELSE [result EXCEPT !.raised = v.exc]

\* verify.py lines 114-170: verify_bundle on the file at bundle_path.
verify_bundle(file, sig, cert, tools, sigValid, rev) ==
    LET first == SignaturePhase(file.exists, sig, cert, tools, sigValid)
        dest == IF file.closed THEN safe_extract(file.members, EmptyDest, 1)
                ELSE Extracted(EmptyTree, {}, <<>>, "EOFError", <<>>)
    IN  IF first.returns THEN first.result
        ELSE IF dest.err # "none" THEN ExtractionFailed(first.result, dest)
        ELSE ManifestPhase(first.result, dest.tree, rev)

\* cli.py lines 155-206: the exit code of the verify command; present says
\* whether the bundle path exists, raised whether verify_bundle raised, and
\* result is what it returned otherwise.
verify(present, raised, result) ==
    IF ~present THEN 1
    ELSE IF raised THEN 1
    ELSE IF result.error # NoError THEN 2
    ELSE 0

\* ============================================================ the build

\* Bound of the build: the number of --include options.
MaxIncludes == 1

\* The values of SOURCE_DATE_EPOCH: util.py lines 132-139 give 0 when the
\* variable is unset or no number.
Epochs == {0, 42}

\* The file system the build reads: the repository /r and, beside it, a
\* directory /manifest.  Every file has a content and a modification time.
NameA == << "a" >>
NameB == << "b" >>
NameD == << "d" >>
NameE == << "e" >>
NameS == << "s" >>
NameCSpace == << "c", " " >>
SetupPy == << "s", "e", "t", "u", "p", ".", "p", "y" >>

BaseHost ==
    LET t0 == Put(Put(EmptyTree, << Slash >>, DirNode), RepoRoot, DirNode)
        t1 == Put(t0, Append(RepoRoot, NameA), FileNode(<< "x" >>, 1))
        t2 == Put(t1, Append(RepoRoot, NameD), DirNode)
        t3 == Put(t2, RepoRoot \o << NameD, NameB >>, FileNode(<< "y", " ", "z" >>, 2))
        t4 == Put(t3, Append(RepoRoot, SetupPy), FileNode(<< "p" >>, 2))
    IN  Put(t4, RepoRoot \o << NameD, NameE >>, DirNode)

HostWithDSStore == Put(BaseHost, RepoRoot \o << NameD, DSStore >>, FileNode(<< "s" >>, 3))

HostWithSpaceName == Put(BaseHost, RepoRoot \o << NameD, NameCSpace >>, FileNode(<< "w" >>, 3))

HostWithSibling ==
    LET t0 == Put(BaseHost, << Slash >> \o ManifestDir, DirNode)
        t1 == Put(t0, << Slash >> \o ManifestDir \o << NameS >>, DirNode)
    IN  Put(t1, << Slash >> \o ManifestDir \o << NameS, Sha256sumName >>, FileNode(<< "q" >>, 3))

Hosts == { BaseHost, HostWithDSStore, HostWithSpaceName, HostWithSibling }

\* The --include strings the build is given.
IncludeStrings ==
    { << "a" >>, << "d" >>, << "z", "z" >>, << "/", "r", "/", "a" >>,
      << ".", ".", "/", "m", "a", "n", "i", "f", "e", "s", "t", "/", "s", "/", "s", "h", "a", "2", "5", "6", "s", "u", "m", ".", "t", "x", "t" >> }

RECURSIVE SeqsUpTo(_, _)
SeqsUpTo(S, n) ==
    IF n = 0 THEN { <<>> }
    ELSE LET shorter == SeqsUpTo(S, n - 1)
         IN  shorter \cup { Append(q, x) : q \in { r \in shorter : Len(r) = n - 1 }, x \in S }

\* What the machine offers: the binaries in PATH, those among them that exit
\* non-zero when run, and whether the collectors of git data and of the pip
\* list return something.
Environments ==
    { [tools |-> {}, failing |-> {}, git |-> FALSE, pip |-> FALSE],
      [tools |-> {"cosign", "syft"}, failing |-> {}, git |-> TRUE, pip |-> TRUE],
      [tools |-> {"cosign", "cyclonedx-py"}, failing |-> {"cosign", "cyclonedx-py"},
       git |-> TRUE, pip |-> FALSE] }

\* The options of create_bundle besides the includes.
Options ==
    { [sbom_format |-> "none", collect_git |-> FALSE, collect_pip |-> FALSE, cosign_sign |-> g] :
        g \in BOOLEAN }
    \cup
    { [sbom_format |-> "auto", collect_git |-> TRUE, collect_pip |-> TRUE, cosign_sign |-> g] :
        g \in BOOLEAN }

NoBundle == [exists |-> FALSE, gzip |-> GzipHeader, members |-> <<>>, closed |-> FALSE]
NoResult == [returned |-> FALSE, file_count |-> 0, sbom_tool |-> "none", signed |-> FALSE,
             bundle_sha256 |-> BundleSha(NoBundle), source_date_epoch |-> 0]

VARIABLES
    host,          \* the file system the build reads
    includes,      \* create_bundle's includes
    epoch,         \* SOURCE_DATE_EPOCH
    opts,          \* create_bundle's other options
    env,           \* the machine's tools and collectors
    clock,         \* the wall-clock time
    run,           \* 1 for the first build, 2 for the second
    pc,            \* where create_bundle stands
    inc_i,         \* the index of the include the loop is at
    stage,         \* the staging area: tree, outside writes, error
    stageExists,   \* whether the staging directory exists
    input_log,     \* pack.py line 110
    eff_tool,      \* pack.py line 209
    bundle,        \* per run, the file at bundle_path
    sigFiles,      \* per run, whether cosign wrote the .sig and .crt files
    result,        \* per run, what create_bundle returned
    error,         \* the exception create_bundle raised, "none" if none
    events,        \* the steps create_bundle has taken, in order
    vmode,         \* where the file to verify comes from: "built", "honest", "craft"
    tampers,       \* what a third party did to the extracted files, in order
    archive,       \* the file verify_bundle is given
    vcall,         \* the other arguments and the machine of that call
    vpc,           \* where verify_bundle stands
    vidx,          \* the index of the member safe_extract is at
    dest,          \* the scratch directory of the extraction
    vresult        \* verify_bundle's result record

buildVars ==
    << host, includes, epoch, opts, env, clock, run, pc, inc_i, stage, stageExists,
       input_log, eff_tool, bundle, sigFiles, result, error, events >>

verifyVars == << vmode, tampers, archive, vcall, vpc, vidx, dest, vresult >>

vars == << buildVars, verifyVars >>

\* A call of verify_bundle: whether the bundle file, --sig and --cert are
\* given, whether cosign is in PATH and whether it accepts the signature.
VerifyCall(present, sig, cert, cosign, sigValid) ==
    [present |-> present, sig |-> sig, cert |-> cert,
     tools |-> IF cosign THEN {"cosign"} ELSE {}, sigValid |-> sigValid]

PlainCall == VerifyCall(TRUE, FALSE, FALSE, FALSE, FALSE)

VerifyCalls ==
    { PlainCall,
      VerifyCall(FALSE, FALSE, FALSE, FALSE, FALSE),
      VerifyCall(TRUE, TRUE, TRUE, TRUE, TRUE),
      VerifyCall(TRUE, TRUE, TRUE, TRUE, FALSE),
      VerifyCall(TRUE, TRUE, TRUE, FALSE, TRUE),
      VerifyCall(TRUE, TRUE, FALSE, TRUE, TRUE) }

VerifyIdle ==
    /\ vmode = "built"
    /\ tampers = <<>>
    /\ archive = NoBundle
    /\ vcall = PlainCall
    /\ vpc = "idle"
    /\ vidx = 1
    /\ dest = EmptyDest
    /\ vresult = InitialResult

BuildInit ==
    /\ host \in Hosts
    /\ includes \in SeqsUpTo(IncludeStrings, MaxIncludes)
    /\ epoch \in Epochs
    /\ opts \in Options
    /\ env \in Environments
    /\ clock = 10
    /\ run = 1
    /\ pc = "start"
    /\ inc_i = 1
    /\ stage = Staged(EmptyTree, {}, "none")
    /\ stageExists = FALSE
    /\ input_log = <<>>
    /\ eff_tool = "none"
    /\ bundle = [r \in {1, 2} |-> NoBundle]
    /\ sigFiles = [r \in {1, 2} |-> FALSE]
    /\ result = [r \in {1, 2} |-> NoResult]
    /\ error = "none"
    /\ events = <<>>

\* An exception leaves create_bundle and the staging directory stays.
RaiseLeavingStage(msg) ==
    /\ pc' = "failed"
    /\ error' = msg
    /\ UNCHANGED << host, includes, epoch, opts, env, clock, run, inc_i, stage,
                  stageExists, input_log, eff_tool, bundle, sigFiles, result,
                  events, vmode, tampers, archive, vcall, vpc, vidx,
                  dest, vresult >>

\* An exception leaves create_bundle: the TemporaryDirectory is removed on
\* the way out (pack.py line 103), nothing else is undone.
Raise(msg) ==
    /\ pc' = "failed"
    /\ error' = msg
    /\ stageExists' = FALSE
    /\ stage' = Staged(EmptyTree, stage.outside, "none")
    /\ UNCHANGED << host, includes, epoch, opts, env, clock, run, inc_i,
                  input_log, eff_tool, bundle, sigFiles, result, events,
                  vmode, tampers, archive, vcall, vpc, vidx, dest,
                  vresult >>

\* pack.py lines 103-110.
Begin ==
    /\ pc = "start"
    /\ pc' = "artifacts"
    /\ stageExists' = TRUE
    /\ stage' = PutAt(Staged(EmptyTree, stage.outside, "none"), ArtifactsDir, DirNode)
    /\ input_log' = <<>>
    /\ inc_i' = 1
    /\ events' = <<>>
    /\ UNCHANGED << host, includes, epoch, opts, env, clock, run, eff_tool,
                  bundle, sigFiles, result, error, vmode, tampers,
                  archive, vcall, vpc, vidx, dest, vresult >>

\* pack.py lines 112-148, one include.
StageArtifact ==
    /\ pc = "artifacts"
    /\ inc_i <= Len(includes)
    /\ LET r == StageInclude(stage, input_log, host, includes[inc_i])
       IN  IF r.st.err # "none" THEN Raise(r.st.err)
           ELSE /\ stage' = r.st
                /\ input_log' = r.log
                /\ inc_i' = inc_i + 1
                /\ events' = Append(events, "artifact")
                /\ UNCHANGED << host, includes, epoch, opts, env, clock, run,
                              pc, stageExists, eff_tool, bundle, sigFiles,
                              result, error, vmode, tampers, archive,
                              vcall, vpc, vidx, dest, vresult >>

\* A source file that cannot be read makes the copy raise (pack.py lines
\* 142-148); an include that is skipped is not copied.
CopyFails ==
    /\ pc = "artifacts"
    /\ inc_i <= Len(includes)
    /\ Exists(host, ResolveAbs(PathJoin(RepoRoot, Parts(includes[inc_i])), <<>>))
    /\ ~IsAbsolute(Parts(includes[inc_i])) \/ IsPrefix(RepoRoot, Parts(includes[inc_i]))
    /\ Raise("PermissionError")

\* pack.py lines 150-187: the metadata files; the directory must not exist.
WriteMetadata(st, ep, collect_git, e, now) ==
    IF st.err # "none" THEN st
    ELSE IF Exists(st.tree, MetadataDir) THEN [st EXCEPT !.err = "FileExistsError"]
    ELSE LET s0 == PutAt(st, MetadataDir, DirNode)
             s1 == PutAt(s0, MetadataJson, FileNode(MetadataJsonText(ep), now))
             s2 == PutAt(s1, RunJson, FileNode(RunJsonText(ep), now))
         IN  IF collect_git /\ e.git THEN PutAt(s2, GitJson, FileNode(<< "g" >>, now))
             ELSE s2

\* pack.py line 195: one of the three project files, or a *.py file at the
\* top of the repository.
HasPython(h) ==
    \/ \E f \in { SetupPy, << "p", "y", "p", "r", "o", "j", "e", "c", "t", ".", "t", "o", "m", "l" >>,
                  << "r", "e", "q", "u", "i", "r", "e", "m", "e", "n", "t", "s", ".", "t", "x", "t" >> } :
          Exists(h, Append(RepoRoot, f))
    \/ \E p \in DOMAIN h :
          /\ Len(p) = Len(RepoRoot) + 1
          /\ SubSeq(p, 1, Len(RepoRoot)) = RepoRoot
          /\ Len(p[Len(p)]) > 3
          /\ SubSeq(p[Len(p)], Len(p[Len(p)]) - 2, Len(p[Len(p)])) = << ".", "p", "y" >>

\* pack.py lines 189-202: the dependency list.
CollectDeps(st, h, collect_pip, e, now) ==
    IF st.err # "none" THEN st
    ELSE IF collect_pip /\ HasPython(h) /\ e.pip
    THEN PutAt(PutAt(st, DepsDir, DirNode), PipFreezeTxt, FileNode(<< "l" >>, now))
    ELSE st

\* pack.py lines 209-213.
EffTool(format, tools) ==
    IF format # "auto" THEN format
    ELSE IF "cyclonedx-py" \in tools THEN "cyclonedx"
    ELSE IF "syft" \in tools THEN "syft"
    ELSE "none"

\* sbom.py lines 18-33: the binary generate_sbom settles on, "" if none.
SbomBinary(format, tools) ==
    IF format = "auto"
    THEN IF "cyclonedx-py" \in tools THEN "cyclonedx-py"
         ELSE IF "syft" \in tools THEN "syft" ELSE ""
    ELSE IF format = "cyclonedx" /\ "cyclonedx-py" \in tools THEN "cyclonedx-py"
    ELSE IF format = "syft" /\ "syft" \in tools THEN "syft"
    ELSE ""

\* sbom.py lines 11-61: the staging area after generate_sbom(output_path,
\* format); a tool that exits non-zero leaves no file.
generate_sbom(st, output_path, format, e, now) ==
    LET tool == SbomBinary(format, e.tools)
    IN  IF format = "none" \/ tool = "" \/ tool \in e.failing THEN st
        ELSE PutAt(st, output_path, FileNode(<< "b" >>, now))

\* pack.py lines 215-219: the sbom directory, which must not exist, and the
\* SBOM in it.
StageSbom(st, format, e, now) ==
    LET tool == EffTool(format, e.tools)
    IN  IF st.err # "none" \/ tool = "none" THEN st
        ELSE IF Exists(st.tree, SbomDir) THEN [st EXCEPT !.err = "FileExistsError"]
        ELSE generate_sbom(PutAt(st, SbomDir, DirNode),
                           IF tool = "cyclonedx" THEN SbomCdxJson ELSE SbomSyftJson,
                           format, e, now)

\* pack.py lines 150-219: metadata, dependency list and SBOM are staged.
StageGenerated ==
    /\ pc = "artifacts"
    /\ inc_i > Len(includes)
    /\ LET s1 == WriteMetadata(stage, epoch, opts.collect_git, env, clock)
           s2 == CollectDeps(s1, host, opts.collect_pip, env, clock)
           s3 == StageSbom(s2, opts.sbom_format, env, clock)
       IN  IF s3.err # "none" THEN Raise(s3.err)
           ELSE /\ stage' = s3
                /\ eff_tool' = EffTool(opts.sbom_format, env.tools)
                /\ pc' = "manifest"
                /\ events' = events \o << "metadata", "deps", "sbom" >>
                /\ UNCHANGED << host, includes, epoch, opts, env, clock, run,
                              inc_i, stageExists, input_log, bundle, sigFiles,
                              result, error, vmode, tampers, archive,
                              vcall, vpc, vidx, dest, vresult >>

\* pack.py lines 221-227: manifest/inputs.json, then the manifest.
StageManifest(st, log, rev, now) ==
    LET s0 == PutAt(st, ManifestDir, DirNode)
        s1 == PutAt(s0, InputsJson, FileNode(InputsJsonText(SortLog(log)), now))
    IN  IF s1.err # "none" THEN s1
        ELSE [s1 EXCEPT !.tree = generate_manifest(s1.tree, rev, now)]

WriteManifest ==
    /\ pc = "manifest"
    /\ \E rev \in BOOLEAN :
        LET s1 == StageManifest(stage, input_log, rev, clock)
        IN  IF s1.err # "none" THEN Raise(s1.err)
            ELSE /\ stage' = s1
                 /\ pc' = "pack"
                 /\ events' = events \o << "inputs", "manifest" >>
                 /\ UNCHANGED << host, includes, epoch, opts, env, clock, run,
                               inc_i, stageExists, input_log, eff_tool,
                               bundle, sigFiles, result, error, vmode,
                               tampers, archive, vcall, vpc, vidx, dest,
                               vresult >>

\* A staged file that cannot be read makes the hashing raise.
HashFails ==
    /\ pc = "manifest"
    /\ Raise("OSError")

\* pack.py lines 229-249, and the end of the with block of line 103.
PackBundle ==
    /\ pc = "pack"
    /\ \E rev \in BOOLEAN :
        LET all_files == AllFiles(stage.tree, rev)
        IN  /\ bundle' = [bundle EXCEPT ![run] =
                   Bundle(TarMembers(stage.tree, all_files, Len(all_files), epoch, clock), TRUE)]
            /\ result' = [result EXCEPT ![run].file_count = Len(all_files)]
    /\ pc' = "sign"
    /\ events' = Append(events, "pack")
    /\ stageExists' = FALSE
    /\ stage' = Staged(EmptyTree, stage.outside, "none")
    /\ UNCHANGED << host, includes, epoch, opts, env, clock, run, inc_i,
                  input_log, eff_tool, sigFiles, error, vmode, tampers,
                  archive, vcall, vpc, vidx, dest, vresult >>

\* A staged file that cannot be read makes tar.add raise after k members:
\* the exception leaves create_bundle, the file opened at line 238 stays.
PackFails ==
    /\ pc = "pack"
    /\ \E rev \in BOOLEAN :
        LET all_files == AllFiles(stage.tree, rev)
        IN  \E k \in { j \in 0..(Len(all_files) - 1) : IsFile(stage.tree, all_files[j + 1]) } :
               bundle' = [bundle EXCEPT ![run] =
                   Bundle(TarMembers(stage.tree, all_files, k, epoch, clock), FALSE)]
    /\ pc' = "failed"
    /\ error' = "OSError"
    /\ stageExists' = FALSE
    /\ stage' = Staged(EmptyTree, stage.outside, "none")
    /\ UNCHANGED << host, includes, epoch, opts, env, clock, run, inc_i,
                  input_log, eff_tool, sigFiles, result, events, vmode,
                  tampers, archive, vcall, vpc, vidx, dest, vresult >>

\* pack.py lines 256-258 and 276-282: signing raises.
SignFails ==
    /\ pc = "sign"
    /\ opts.cosign_sign
    /\ "cosign" \notin env.tools \/ "cosign" \in env.failing
    /\ Raise(IF "cosign" \notin env.tools THEN "Cosign requested but not found in PATH."
             ELSE "Cosign signing failed.")

\* pack.py lines 251-312: signing, if asked for, and the return.
SignAndReturn ==
    /\ pc = "sign"
    /\ opts.cosign_sign => ("cosign" \in env.tools /\ "cosign" \notin env.failing)
    /\ sigFiles' = [sigFiles EXCEPT ![run] = opts.cosign_sign]
    /\ result' = [result EXCEPT ![run] =
           [returned |-> TRUE, file_count |-> result[run].file_count, sbom_tool |-> eff_tool,
            signed |-> opts.cosign_sign, bundle_sha256 |-> BundleSha(bundle[run]),
            source_date_epoch |-> epoch]]
    /\ pc' = "done"
    /\ UNCHANGED << host, includes, epoch, opts, env, clock, run, inc_i, stage,
                  stageExists, input_log, eff_tool, bundle, error, events,
                  vmode, tampers, archive, vcall, vpc, vidx, dest,
                  vresult >>

\* The bundle just built is verified, without signature material.
VerifyBuilt ==
    /\ pc = "done"
    /\ vpc = "idle"
    /\ archive' = bundle[run]
    /\ \E rev \in BOOLEAN :
          vresult' = verify_bundle(bundle[run], FALSE, FALSE, env.tools, TRUE, rev)
    /\ vpc' = "done"
    /\ UNCHANGED << host, includes, epoch, opts, env, clock, run, pc, inc_i,
                  stage, stageExists, input_log, eff_tool, bundle, sigFiles,
                  result, error, events, vmode, tampers, vcall, vidx,
                  dest >>

\* os.utime on every file of a tree.
Touch(tree, now) ==
    [q \in DOMAIN tree |-> IF tree[q].kind = "file" THEN [tree[q] EXCEPT !.mtime = now]
                           ELSE tree[q]]

\* Between the two builds time passes and the source files are touched.
Elapse ==
    /\ pc = "done"
    /\ vpc = "done"
    /\ run = 1
    /\ run' = 2
    /\ clock' = clock + 1
    /\ host' = Touch(host, clock')
    /\ pc' = "start"
    /\ vpc' = "idle"
    /\ UNCHANGED << includes, epoch, opts, env, inc_i, stage, stageExists,
                  input_log, eff_tool, bundle, sigFiles, result, error,
                  events, vmode, tampers, archive, vcall, vidx, dest,
                  vresult >>

Init == BuildInit /\ VerifyIdle

Next ==
    \/ Begin
    \/ StageArtifact
    \/ CopyFails
    \/ StageGenerated
    \/ WriteManifest
    \/ HashFails
    \/ PackBundle
    \/ PackFails
    \/ SignFails
    \/ SignAndReturn
    \/ VerifyBuilt
    \/ Elapse

Spec == Init /\ [][Next]_vars

\* --------------------------------------------------- the delegated tools

\* Every choice of --sbom-format and of signing.
ToolOptions ==
    { [sbom_format |-> f, collect_git |-> FALSE, collect_pip |-> FALSE, cosign_sign |-> g] :
        f \in {"none", "auto", "cyclonedx", "syft"}, g \in BOOLEAN }

\* Every machine: each of the three binaries is absent, present and working,
\* or present and exiting non-zero.
ToolEnvironments ==
    { [tools |-> t, failing |-> f, git |-> FALSE, pip |-> FALSE] :
        t \in SUBSET {"cosign", "cyclonedx-py", "syft"}, f \in SUBSET {"cosign", "cyclonedx-py", "syft"} }
    \ { e \in [tools : SUBSET {"cosign", "cyclonedx-py", "syft"},
               failing : SUBSET {"cosign", "cyclonedx-py", "syft"},
               git : {FALSE}, pip : {FALSE}] : ~(e.failing \subseteq e.tools) }

\* create_bundle on one file of the repository, under every option and
\* machine.
ToolsInit ==
    /\ host = BaseHost
    /\ includes = << NameA >>
    /\ epoch = 0
    /\ opts \in ToolOptions
    /\ env \in ToolEnvironments
    /\ clock = 10
    /\ run = 1
    /\ pc = "start"
    /\ inc_i = 1
    /\ stage = Staged(EmptyTree, {}, "none")
    /\ stageExists = FALSE
    /\ input_log = <<>>
    /\ eff_tool = "none"
    /\ bundle = [r \in {1, 2} |-> NoBundle]
    /\ sigFiles = [r \in {1, 2} |-> FALSE]
    /\ result = [r \in {1, 2} |-> NoResult]
    /\ error = "none"
    /\ events = <<>>
    /\ VerifyIdle

SpecTools == ToolsInit /\ [][Next]_vars

\* ======================================================= the verification

\* pack.py lines 112-148: the loop over the includes.
RECURSIVE StageIncludes(_, _, _, _)
StageIncludes(st, log, h, incs) ==
    IF incs = <<>> THEN [st |-> st, log |-> log]
    ELSE LET r == StageInclude(st, log, h, Head(incs))
         IN  StageIncludes(r.st, r.log, h, Tail(incs))

\* pack.py lines 84-249: the archive create_bundle writes when no step
\* raises.
create_bundle(h, incs, ep, o, e, now, rev) ==
    LET s0 == PutAt(Staged(EmptyTree, {}, "none"), ArtifactsDir, DirNode)
        r == StageIncludes(s0, <<>>, h, incs)
        s1 == WriteMetadata(r.st, ep, o.collect_git, e, now)
        s2 == CollectDeps(s1, h, o.collect_pip, e, now)
        s3 == StageSbom(s2, o.sbom_format, e, now)
        s4 == StageManifest(s3, r.log, rev, now)
        all_files == AllFiles(s4.tree, rev)
    IN  Bundle(TarMembers(s4.tree, all_files, Len(all_files), ep, now), TRUE)

\* Bounds of the verification.
MaxTampers == 2
MaxMembers == 3

PlainOptions ==
    [sbom_format |-> "none", collect_git |-> FALSE, collect_pip |-> FALSE, cosign_sign |-> FALSE]

BareEnvironment == [tools |-> {}, failing |-> {}, git |-> FALSE, pip |-> FALSE]

\* Bundles built from the repository: the valid bundles a third party
\* starts from.
HonestBundles ==
    { create_bundle(BaseHost, incs, 0, PlainOptions, BareEnvironment, 10, rev) :
        incs \in { << << "a" >> >>, << << "d" >> >> }, rev \in BOOLEAN }

\* The members a hand-made archive is put together from.
Member(name, type, content, linkname) ==
    TarInfo(name, type, content, linkname, 0, 0, 0, <<>>, <<>>)

MemberUniverse ==
    { Member(<< "a" >>, "reg", << "x" >>, <<>>),
      Member(<< "d" >>, "dir", <<>>, <<>>),
      Member(<< "d", "/", "b" >>, "reg", << "y" >>, <<>>),
      Member(<< "/", "e", "/", "x" >>, "reg", << "v" >>, <<>>),
      Member(<< ".", ".", "/", "x" >>, "reg", << "v" >>, <<>>),
      Member(<< "l" >>, "sym", <<>>, << "/", "e" >>),
      Member(<< "l", "/", "x" >>, "reg", << "v" >>, <<>>),
      Member(<< "h" >>, "lnk", <<>>, << "a" >>),
      Member(PathStr(ManifestPath), "dir", <<>>, <<>>) }

\* Where a third party may put a file of its own.
ExtraPaths ==
    { << << "e", "x", "t", "r", "a", "_", "e", "v", "i", "l" >> >>,
      << << "a", "r", "t", "i", "f", "a", "c", "t", "s" >>, DSStore >>,
      << << "a", "r", "t", "i", "f", "a", "c", "t", "s" >>, << "n", " " >> >> }

VerifyInit ==
    /\ host = BaseHost
    /\ includes = <<>>
    /\ epoch = 0
    /\ opts = PlainOptions
    /\ env = BareEnvironment
    /\ clock = 10
    /\ run = 1
    /\ pc = "off"
    /\ inc_i = 1
    /\ stage = Staged(EmptyTree, {}, "none")
    /\ stageExists = FALSE
    /\ input_log = <<>>
    /\ eff_tool = "none"
    /\ bundle = [r \in {1, 2} |-> NoBundle]
    /\ sigFiles = [r \in {1, 2} |-> FALSE]
    /\ result = [r \in {1, 2} |-> NoResult]
    /\ error = "none"
    /\ events = <<>>
    /\ vmode \in {"honest", "craft"}
    /\ archive \in IF vmode = "honest" THEN HonestBundles ELSE { Bundle(<<>>, TRUE) }
    /\ tampers = <<>>
    /\ vcall = PlainCall
    /\ vpc = "edit"
    /\ vidx = 1
    /\ dest = EmptyDest
    /\ vresult = InitialResult

\* A member is appended to the hand-made archive.
AppendMember ==
    /\ vmode = "craft"
    /\ vpc = "edit"
    /\ Len(archive.members) < MaxMembers
    /\ \E m \in MemberUniverse : archive' = Bundle(Append(archive.members, m), TRUE)
    /\ UNCHANGED << buildVars, vmode, tampers, vcall, vpc, vidx, dest, vresult >>

\* verify.py lines 122-150: verify_bundle is called and goes through its
\* first phase.
VerifyStart ==
    /\ vpc = "edit"
    /\ \E c \in VerifyCalls :
        LET first == SignaturePhase(c.present /\ archive.exists, c.sig, c.cert,
                                    c.tools, c.sigValid)
        IN  /\ vcall' = c
            /\ vresult' = first.result
            /\ vpc' = IF first.returns THEN "done"
                      ELSE IF archive.members = <<>> THEN "manifest" ELSE "extract"
    /\ vidx' = 1
    /\ dest' = EmptyDest
    /\ UNCHANGED << buildVars, vmode, tampers, archive >>

\* verify.py lines 14-27 and 155-160: one round of safe_extract's loop.
ExtractMember ==
    /\ vpc = "extract"
    /\ vidx <= Len(archive.members)
    /\ LET d == SafeExtractMember(dest, archive.members[vidx])
       IN  /\ dest' = d
           /\ IF d.err # "none"
              THEN /\ vresult' = ExtractionFailed(vresult, d)
                   /\ vpc' = "done"
                   /\ vidx' = vidx
              ELSE /\ vresult' = vresult
                   /\ vpc' = IF vidx = Len(archive.members) THEN "manifest" ELSE "extract"
                   /\ vidx' = vidx + 1
    /\ UNCHANGED << buildVars, vmode, tampers, archive, vcall >>

\* A third party changes the content of an extracted file.
TamperContent ==
    /\ vmode = "honest"
    /\ vpc = "manifest"
    /\ Len(tampers) < MaxTampers
    /\ \E p \in DOMAIN dest.tree :
        /\ IsFile(dest.tree, p)
        /\ LET was == dest.tree[p].content
               now == Append(was, "t")
           IN  /\ dest' = [dest EXCEPT !.tree = Put(dest.tree, p, FileNode(now, 0))]
               /\ tampers' = Append(tampers, [op |-> "content", path |-> p,
                                              was |-> was, now |-> now])
    /\ UNCHANGED << buildVars, vmode, archive, vcall, vpc, vidx, vresult >>

\* A third party adds a file to the extracted tree.
TamperAdd ==
    /\ vmode = "honest"
    /\ vpc = "manifest"
    /\ Len(tampers) < MaxTampers
    /\ \E p \in ExtraPaths :
        /\ ~Exists(dest.tree, p)
        /\ Parent(p) # <<>> => IsDir(dest.tree, Parent(p))
        /\ dest' = [dest EXCEPT !.tree = Put(dest.tree, p, FileNode(<< "t" >>, 0))]
        /\ tampers' = Append(tampers, [op |-> "add", path |-> p,
                                       was |-> <<>>, now |-> << "t" >>])
    /\ UNCHANGED << buildVars, vmode, archive, vcall, vpc, vidx, vresult >>

\* A third party removes an extracted file.
TamperRemove ==
    /\ vmode = "honest"
    /\ vpc = "manifest"
    /\ Len(tampers) < MaxTampers
    /\ \E p \in DOMAIN dest.tree :
        /\ IsFile(dest.tree, p)
        /\ dest' = [dest EXCEPT !.tree = Remove(dest.tree, p)]
        /\ tampers' = Append(tampers, [op |-> "remove", path |-> p,
                                       was |-> dest.tree[p].content, now |-> <<>>])
    /\ UNCHANGED << buildVars, vmode, archive, vcall, vpc, vidx, vresult >>

\* verify.py lines 162-170: verify_manifest on the extracted tree, and the
\* return.
CheckManifest ==
    /\ vpc = "manifest"
    /\ \E rev \in BOOLEAN :
        LET r == ManifestPhase(vresult, dest.tree, rev)
        IN  /\ vresult' = r
            /\ vpc' = IF r.raised # "none" THEN "raised" ELSE "done"
    /\ UNCHANGED << buildVars, vmode, tampers, archive, vcall, vidx, dest >>

VerifyNext ==
    \/ AppendMember
    \/ VerifyStart
    \/ ExtractMember
    \/ TamperContent
    \/ TamperAdd
    \/ TamperRemove
    \/ CheckManifest

SpecVerify == VerifyInit /\ [][VerifyNext]_vars

\* ------------------------------------------------------ the include list

\* Bound of the include lists with missing paths among them.
MaxListed == 2

\* The --include strings of such a list: those of the build and an absolute
\* path of a directory beside the repository.
ListedStrings == IncludeStrings \cup { << "/", "m", "a", "n", "i", "f", "e", "s", "t", "/", "s" >> }

\* create_bundle on lists of includes, some of which do not exist.
IncludesInit ==
    /\ host = HostWithSibling
    /\ includes \in SeqsUpTo(ListedStrings, MaxListed)
    /\ epoch = 0
    /\ opts \in { PlainOptions, [PlainOptions EXCEPT !.cosign_sign = TRUE] }
    /\ env = BareEnvironment
    /\ clock = 10
    /\ run = 1
    /\ pc = "start"
    /\ inc_i = 1
    /\ stage = Staged(EmptyTree, {}, "none")
    /\ stageExists = FALSE
    /\ input_log = <<>>
    /\ eff_tool = "none"
    /\ bundle = [r \in {1, 2} |-> NoBundle]
    /\ sigFiles = [r \in {1, 2} |-> FALSE]
    /\ result = [r \in {1, 2} |-> NoResult]
    /\ error = "none"
    /\ events = <<>>
    /\ VerifyIdle

SpecIncludes == IncludesInit /\ [][Next]_vars

\* ================================================= the manifest alone

\* The files a bundle root may hold when generate_manifest is called on it:
\* artifacts, a manifest of a previous run, a file of the manifest's name
\* in a directory below manifest/, and a file with a newline in its name.
CandidateFiles ==
    { [path |-> << << "a", "r", "t", "i", "f", "a", "c", "t", "s" >>, NameA >>, content |-> << "x" >>],
      [path |-> << << "a", "r", "t", "i", "f", "a", "c", "t", "s" >>, NameD, NameB >>, content |-> << "y", " ", "z" >>],
      [path |-> << << "a", "r", "t", "i", "f", "a", "c", "t", "s" >>, << "d", ".", "c" >> >>, content |-> << "w" >>],
      [path |-> << << "a", "r", "t", "i", "f", "a", "c", "t", "s" >>, << "a", "\n", "b" >> >>, content |-> << "v" >>],
      [path |-> RunJson, content |-> << "\n" >>],
      [path |-> ManifestPath, content |-> << "#", "x", " ", " ", "a", "r", "t", "i", "f", "a", "c", "t", "s", "/", "a", "\n" >>],
      [path |-> << ManifestDir[1], NameS, Sha256sumName >>, content |-> << "q" >>] }

\* The tree that holds the given files and the directories above them.
RECURSIVE TreeOf(_)
TreeOf(files) ==
    IF files = {} THEN EmptyTree
    ELSE LET f == CHOOSE x \in files : TRUE
             rest == TreeOf(files \ {f})
         IN  Put(MakeDirs(rest, Parent(f.path), 1), f.path, FileNode(f.content, 1))

ManifestInit ==
    /\ host = EmptyTree
    /\ includes = <<>>
    /\ epoch = 0
    /\ opts = PlainOptions
    /\ env = BareEnvironment
    /\ clock = 10
    /\ run = 1
    /\ pc = "tree"
    /\ inc_i = 1
    /\ \E files \in SUBSET CandidateFiles : stage = Staged(TreeOf(files), {}, "none")
    /\ stageExists = TRUE
    /\ input_log = <<>>
    /\ eff_tool = "none"
    /\ bundle = [r \in {1, 2} |-> NoBundle]
    /\ sigFiles = [r \in {1, 2} |-> FALSE]
    /\ result = [r \in {1, 2} |-> NoResult]
    /\ error = "none"
    /\ events = <<>>
    /\ VerifyIdle

\* manifest.py lines 17-49: generate_manifest(bundle_root) on the tree.
GenerateManifest ==
    /\ pc = "tree"
    /\ \E rev \in BOOLEAN :
          stage' = [stage EXCEPT !.tree = generate_manifest(stage.tree, rev, clock)]
    /\ pc' = "hashed"
    /\ events' = Append(events, "manifest")
    /\ UNCHANGED << host, includes, epoch, opts, env, clock, run, inc_i, stageExists,
                    input_log, eff_tool, bundle, sigFiles, result, error, verifyVars >>

ManifestNext == GenerateManifest

SpecManifest == ManifestInit /\ [][ManifestNext]_vars

\* ============================================================ properties

\* The regular files of a tree.
RegularFiles(tree) == { p \in DOMAIN tree : tree[p].kind = "file" }

\* verify_bundle went through extraction and ran verify_manifest.
ManifestChecked ==
    /\ vpc \in {"done", "raised"}
    /\ ~SignaturePhase(vcall.present /\ archive.exists, vcall.sig, vcall.cert,
                       vcall.tools, vcall.sigValid).returns
    /\ dest.err = "none"

\* What the manifest of a tree declares, as the verifier reads it.
Declared(tree) ==
    IF IsFile(tree, ManifestPath)
    THEN LoadExpected(FileLines(tree[ManifestPath].content), <<>>)
    ELSE <<>>

\* One tampering of the given kind was done to an honest bundle's files,
\* on a file other than the manifest.
OneTamper(op) ==
    /\ vmode = "honest"
    /\ Len(tampers) = 1
    /\ tampers[1].op = op
    /\ tampers[1].path # ManifestPath

\* A member that one of the three rules of safe_extract is about.
ViolatesRule(member) ==
    \/ member.name # <<>> /\ Head(member.name) = "/"
    \/ \E i \in 1..Len(Parts(member.name)) : Parts(member.name)[i] = DotDot
    \/ member.type \in {"sym", "lnk"}

\* C1 Determinism: when the second build, made from the same includes and
\* the same SOURCE_DATE_EPOCH after time has passed and the source files
\* were touched, has written its archive, the archive is byte for byte that
\* of the first build, and the digests returned are the same.
C1_Determinism ==
    /\ (run = 2 /\ bundle[2].closed) => bundle[2] = bundle[1]
    /\ (run = 2 /\ pc = "done") => result[2].bundle_sha256 = result[1].bundle_sha256

C1_Witness ==
    /\ run = 2
    /\ pc = "done"
    /\ includes # <<>>
    /\ \E i \in 1..Len(bundle[2].members) : bundle[2].members[i].type = "reg"
    /\ \E p \in DOMAIN host : host[p].kind = "file" /\ host[p].mtime > 10

\* C2 Round trip: verify_bundle on the archive create_bundle has just
\* written returns manifest_verified = true and no error, whatever the
\* input tree.
C2_RoundTrip ==
    (pc = "done" /\ vpc = "done") => (vresult.manifest_verified /\ vresult.error = NoError)

\* C3 Closed world: verify_manifest succeeds exactly when the regular files
\* of the extracted tree other than manifest/sha256sum.txt are the paths the
\* manifest declares and each file's digest is the declared one.
C3_ClosedWorld ==
    ManifestChecked =>
        (vresult.manifest_verified <=>
            /\ IsFile(dest.tree, ManifestPath)
            /\ { PathStr(p) : p \in RegularFiles(dest.tree) \ {ManifestPath} }
                 = { Declared(dest.tree)[i][1] : i \in 1..Len(Declared(dest.tree)) }
            /\ \A p \in RegularFiles(dest.tree) \ {ManifestPath} :
                 DictHas(Declared(dest.tree), PathStr(p)) =>
                     DictGet(Declared(dest.tree), PathStr(p))
                         = calculate_file_hash(dest.tree[p].content))

\* C4 Tamper detection, content: when the content of exactly one manifested
\* file of a valid bundle was changed, verification returns
\* manifest_verified = false and a hash mismatch that names the file and
\* holds the declared digest and the recomputed one.
C4_ContentTamperDetected ==
    (ManifestChecked /\ OneTamper("content")
        /\ DictHas(Declared(dest.tree), PathStr(tampers[1].path))) =>
        /\ ~vresult.manifest_verified
        /\ vresult.raised = "none"
        /\ vresult.error = Verdict("ValueError", "hash_mismatch", PathStr(tampers[1].path),
                                   calculate_file_hash(tampers[1].was),
                                   calculate_file_hash(tampers[1].now))

C4_Witness ==
    /\ ManifestChecked
    /\ OneTamper("content")
    /\ tampers[1].path = << << "a", "r", "t", "i", "f", "a", "c", "t", "s" >>, NameD, NameB >>
    /\ vresult.error.cause = "hash_mismatch"

\* C5 Tamper detection, extra file: when one regular file the manifest does
\* not declare was added to a valid bundle, at any path and under any name,
\* verification returns manifest_verified = false and an unexpected-file
\* cause.
C5_ExtraFileDetected ==
    (ManifestChecked /\ OneTamper("add")) =>
        /\ ~vresult.manifest_verified
        /\ vresult.error.cause = "unexpected_file"

\* C6 Tamper detection, missing file: when one file the manifest declares
\* was removed from a valid bundle, verification fails with a missing-file
\* cause that names the file.
C6_MissingFileDetected ==
    (ManifestChecked /\ OneTamper("remove")
        /\ DictHas(Declared(dest.tree), PathStr(tampers[1].path))) =>
        /\ ~vresult.manifest_verified
        /\ vresult.raised = "none"
        /\ vresult.error = Verdict("ValueError", "missing_file", PathStr(tampers[1].path),
                                   <<>>, <<>>)

C6_Witness ==
    /\ ManifestChecked
    /\ OneTamper("remove")
    /\ tampers[1].path = InputsJson
    /\ vresult.error.cause = "missing_file"

\* C7 Extraction, all or nothing: when the archive holds, at any position,
\* a member with an absolute path, a ".." segment or the type of a symlink
\* or hardlink, safe_extract has raised an error naming such a member and
\* has written no file to the destination.
C7_AllOrNothing ==
    (/\ vpc = "done"
     /\ ~SignaturePhase(vcall.present /\ archive.exists, vcall.sig, vcall.cert,
                        vcall.tools, vcall.sigValid).returns
     /\ \E k \in 1..Len(archive.members) : ViolatesRule(archive.members[k])) =>
        /\ dest.err \in {"Unsafe absolute path", "Unsafe path traversal",
                         "Unsafe symlink/hardlink blocked"}
        /\ \E k \in 1..Len(archive.members) :
              ViolatesRule(archive.members[k]) /\ dest.offender = archive.members[k].name
        /\ RegularFiles(dest.tree) = {}

\* C8 Rejection precedes writing: in every state of an extraction, the
\* members written are the first members of the archive, none of them is a
\* member the three rules are about, no member at or after such a member is
\* written, and nothing is written outside the destination directory.
C8_RejectionPrecedesWriting ==
    /\ Len(dest.written) <= Len(archive.members)
    /\ \A i \in 1..Len(dest.written) :
          dest.written[i] = archive.members[i] /\ ~ViolatesRule(dest.written[i])
    /\ \A k \in 1..Len(archive.members) :
          ViolatesRule(archive.members[k]) => Len(dest.written) < k
    /\ dest.outside = {}

C8_Witness ==
    /\ vpc = "done"
    /\ dest.err = "Unsafe path traversal"
    /\ Len(dest.written) = 2
    /\ Len(archive.members) = 3
    /\ ViolatesRule(archive.members[3])

\* C9 No partial bundle: when create_bundle has failed, no file is left at
\* bundle_path; a file is there only when the whole operation succeeded.
C9_NoPartialBundle ==
    pc = "failed" => ~bundle[run].exists

\* C10 Manifest last: when the archive is about to be serialized, the
\* artifacts, the metadata, the dependency list, the SBOM and
\* manifest/inputs.json were staged before generate_manifest ran, nothing
\* was staged after it, and every regular file staged other than the
\* manifest has a manifest line with the digest of its content.
C10_ManifestLast ==
    pc = "pack" =>
        /\ events = [i \in 1..Len(includes) |-> "artifact"]
                       \o << "metadata", "deps", "sbom", "inputs", "manifest" >>
        /\ IsFile(stage.tree, ManifestPath)
        /\ \A p \in RegularFiles(stage.tree) \ {ManifestPath} :
              \E i \in 1..Len(FileLines(stage.tree[ManifestPath].content)) :
                  FileLines(stage.tree[ManifestPath].content)[i]
                      = ManifestLine(calculate_file_hash(stage.tree[p].content), PathStr(p))

\* The text holds the end of a manifest line for the path: two spaces, the
\* path, a newline.
HasEntry(text, path) ==
    \E i \in 1..(Len(text) - Len(path) - 2) :
        SubSeq(text, i, i + Len(path) + 2) = << " ", " " >> \o path \o << "\n" >>

\* C11 Self-exclusion: the manifest generate_manifest has written holds no
\* entry for manifest/sha256sum.txt, also when the tree held a manifest of a
\* previous run, and holds an entry for every other regular file of the
\* tree.
C11_SelfExclusion ==
    pc = "hashed" =>
        /\ ~HasEntry(stage.tree[ManifestPath].content, PathStr(ManifestPath))
        /\ \A p \in RegularFiles(stage.tree) \ {ManifestPath} :
              HasEntry(stage.tree[ManifestPath].content, PathStr(p))

\* C12 Manifest shape: the manifest generate_manifest has written holds
\* exactly one line, digest, two spaces, path, newline, for each regular
\* file other than itself, no path twice, the lines in strictly increasing
\* order of path, whatever the order of the directory walk.
C12_ManifestShape ==
    pc = "hashed" =>
        LET lines == FileLines(stage.tree[ManifestPath].content)
            files == RegularFiles(stage.tree) \ {ManifestPath}
            LineOf(q) == ManifestLine(calculate_file_hash(stage.tree[q].content), PathStr(q))
        IN  /\ Len(lines) = Cardinality(files)
            /\ \A q \in files : \E i \in 1..Len(lines) : lines[i] = LineOf(q)
            /\ \A i \in 1..Len(lines) :
                  \E q \in files :
                      /\ lines[i] = LineOf(q)
                      /\ \A j \in (i + 1)..Len(lines) :
                            \E r \in files :
                                lines[j] = LineOf(r) /\ StrLess(PathStr(q), PathStr(r))

\* C13 Single timestamp: the gzip wrapper of a written archive holds no
\* file name, and its timestamp is the modification time of every tar
\* member, which is SOURCE_DATE_EPOCH.
C13_SharedTimestamp ==
    bundle[run].closed =>
        /\ bundle[run].gzip.filename = <<>>
        /\ \A i \in 1..Len(bundle[run].members) :
              /\ bundle[run].members[i].mtime = epoch
              /\ bundle[run].members[i].mtime = bundle[run].gzip.mtime

\* C14 Staging cleanup: when create_bundle has ended, by its return or by
\* an exception of any step, the staging directory is gone, and it is gone
\* before signing starts.
C14_StagingCleanup ==
    pc \in {"sign", "done", "failed"} => (~stageExists /\ stage.tree = EmptyTree)

C14_Witness ==
    /\ pc = "failed"
    /\ error = "OSError"
    /\ ~bundle[run].exists
    /\ Len(events) > Len(includes)
    /\ ~stageExists

\* C15: every result verify_bundle returns has manifest_verified exactly when
\* error is unset; a signature_verified of false comes with manifest_verified
\* false and an error; and a cause, once recorded, is the one the result
\* keeps: no later step of verify_bundle replaces it.
C15_ResultConsistency ==
    /\ [](vpc = "done" =>
            /\ vresult.manifest_verified <=> vresult.error = NoError
            /\ vresult.signature_verified = "false" =>
                  (~vresult.manifest_verified /\ vresult.error # NoError))
    /\ [][vresult.error # NoError => vresult'.error = vresult.error]_vars

\* A result returned after an accepted signature, whose only cause was
\* recorded by the manifest phase.
C15_Witness ==
    /\ vpc = "done"
    /\ vresult.signature_verified = "true"
    /\ vresult.error.cause \in {"hash_mismatch", "unexpected_file", "missing_file"}
    /\ ~vresult.manifest_verified

\* verify_bundle went past its signature phase.
PastSignature ==
    ~SignaturePhase(vcall.present /\ archive.exists, vcall.sig, vcall.cert,
                    vcall.tools, vcall.sigValid).returns

\* The extracted tree holds a regular file the manifest does not declare.
HasUnexpectedFile(tree) ==
    \E p \in RegularFiles(tree) :
        /\ p # ManifestPath
        /\ PathName(p) # DSStore
        /\ ~DictHas(Declared(tree), PathStr(p))

\* C16: when verify_bundle has ended on an archive with an unsafe member,
\* without a manifest file, or with a file the manifest does not declare, it
\* has returned a result whose error field holds the cause: it has raised
\* nothing to its caller.
C16_IntegrityErrorsReturned ==
    ( /\ vpc \in {"done", "raised"}
      /\ PastSignature
      /\ \/ \E i \in 1..Len(archive.members) : ViolatesRule(archive.members[i])
         \/ dest.err = "none" /\ ~IsFile(dest.tree, ManifestPath)
         \/ dest.err = "none" /\ HasUnexpectedFile(dest.tree) )
    => (vpc = "done" /\ vresult.raised = "none" /\ vresult.error # NoError)

\* The exit code of the verify command whose verify_bundle call has ended.
ExitCode == verify(vcall.present /\ archive.exists, vpc = "raised", vresult)

\* The causes that say the evidence is invalid: a rejected signature, an
\* archive that cannot be extracted safely, a violation of the manifest.
EvidenceInvalid ==
    \/ vresult.error.cause \in {"Signature INVALID.", "manifest_missing", "unexpected_file",
                                "hash_mismatch", "missing_file"}
    \/ vresult.error.exc = "Exception"

\* C17: when the verify command has ended, it exits 0 only if the result
\* carries no error, exits 2 only if the evidence was found invalid, and
\* exits 1 for a missing bundle, a missing verifier binary, signature
\* material given by half, or an exception out of verify_bundle.
C17_ExitCodes ==
    vpc \in {"done", "raised"} =>
        /\ ExitCode = 0 => (vpc = "done" /\ vresult.error = NoError)
        /\ ExitCode = 2 => EvidenceInvalid
        /\ ( \/ ~(vcall.present /\ archive.exists)
             \/ vpc = "raised"
             \/ vcall.sig /\ vcall.cert /\ "cosign" \notin vcall.tools
             \/ vcall.sig # vcall.cert ) => ExitCode = 1

\* Both a signature and a certificate were given to a call of verify_bundle
\* on an existing bundle.
SignatureSupplied ==
    /\ vpc # "edit"
    /\ vcall.present /\ archive.exists
    /\ vcall.sig /\ vcall.cert

\* C18: with a signature and a certificate supplied, nothing is extracted
\* and no manifest is checked before the signature was accepted; when the
\* verifier binary is missing or rejects the signature, verify_bundle has
\* ended with signature_verified false, manifest_verified false and an
\* error, and its scratch directory is untouched; and manifest_verified
\* comes with signature_verified true.
C18_SignatureFirst ==
    SignatureSupplied =>
        /\ ("cosign" \notin vcall.tools \/ ~vcall.sigValid) =>
              /\ vpc = "done"
              /\ vresult.signature_verified = "false"
              /\ ~vresult.manifest_verified
              /\ vresult.error # NoError
              /\ dest = EmptyDest /\ vidx = 1
        /\ (dest # EmptyDest \/ vpc \in {"extract", "manifest", "raised"}) =>
              vresult.signature_verified = "true"
        /\ vresult.manifest_verified => vresult.signature_verified = "true"

\* verify_bundle has ended on an archive with members, given a signature
\* and a certificate and no verifier binary.
C18_Witness ==
    /\ SignatureSupplied
    /\ "cosign" \notin vcall.tools
    /\ archive.members # <<>>
    /\ vpc = "done"
    /\ vresult.signature_verified = "false"
    /\ dest = EmptyDest

\* The archive of the current build holds an SBOM file.
HasSbomFile ==
    \E i \in 1..Len(bundle[run].members) :
        bundle[run].members[i].name \in {PathStr(SbomCdxJson), PathStr(SbomSyftJson)}

\* C19: a build that was asked to sign, or asked for the cyclonedx or the
\* syft SBOM, ends successfully only if that tool's binary is in PATH; a
\* cosign that exits non-zero makes the build fail; an SBOM tool that exits
\* non-zero leaves a successful build without an SBOM file.
C19_DelegatedToolErrors ==
    /\ (pc = "done" /\ opts.cosign_sign) =>
          ("cosign" \in env.tools /\ "cosign" \notin env.failing)
    /\ (pc = "done" /\ opts.sbom_format = "cyclonedx") => "cyclonedx-py" \in env.tools
    /\ (pc = "done" /\ opts.sbom_format = "syft") => "syft" \in env.tools
    /\ (pc = "done" /\ SbomBinary(opts.sbom_format, env.tools) \in env.failing) => ~HasSbomFile
    /\ (pc = "failed" /\ error \notin {"PermissionError", "OSError"}) =>
          (opts.cosign_sign /\ ("cosign" \notin env.tools \/ "cosign" \in env.failing))

\* The file or directory an include names, as create_bundle resolves it.
IncludeSource(inc_str) == ResolveAbs(PathJoin(RepoRoot, Parts(inc_str)), <<>>)

\* An include given relative to the repository, or absolute and inside it.
InsideRepository(inc_str) ==
    ~IsAbsolute(Parts(inc_str)) \/ IsPrefix(RepoRoot, Parts(inc_str))

\* The path of an include relative to the repository.
RelativeToRepo(inc_str) ==
    IF IsAbsolute(Parts(inc_str)) /\ IsPrefix(RepoRoot, Parts(inc_str))
    THEN SubSeq(Parts(inc_str), Len(RepoRoot) + 1, Len(Parts(inc_str)))
    ELSE Parts(inc_str)

\* The src field of a line of manifest/inputs.json.
SrcOfLine(line) == SubSeq(line, 1, Len(line) - 3)

\* The lines of the staged manifest/inputs.json.
InputsLines == FileLines(stage.tree[InputsJson].content)

ExistsOnHost(inc_str) == Exists(host, IncludeSource(inc_str))

ExistsInsideRepository(inc_str) == ExistsOnHost(inc_str) /\ InsideRepository(inc_str)

\* The includes of the list that are to be staged and logged: the existing
\* ones, or only those of them inside the repository.
Logged(insideOnly) ==
    { i \in 1..Len(includes) :
        IF insideOnly THEN ExistsInsideRepository(includes[i]) ELSE ExistsOnHost(includes[i]) }

\* What C20 says of the staged tree, for the includes that are to be staged.
IncludesHandled(insideOnly) ==
    /\ (pc = "failed" /\ Len(events) < Len(includes)) =>
          Exists(host, IncludeSource(includes[Len(events) + 1]))
    /\ (pc = "pack" /\ stageExists) =>
          /\ \A i \in 1..Len(includes) :
                ~Exists(host, IncludeSource(includes[i])) =>
                    /\ ~Exists(stage.tree, ArtifactsDir \o Parts(includes[i]))
                    /\ \A k \in 1..Len(InputsLines) :
                          SrcOfLine(InputsLines[k]) # includes[i]
          /\ \A i \in Logged(insideOnly) :
                /\ Exists(stage.tree, ResolveRel(ArtifactsDir \o RelativeToRepo(includes[i]), <<>>).path)
                /\ \E k \in 1..Len(InputsLines) :
                      SrcOfLine(InputsLines[k]) = PathStr(RelativeToRepo(includes[i]))
          /\ Len(InputsLines) = Cardinality(Logged(insideOnly))
          /\ \A k \in 1..(Len(InputsLines) - 1) :
                ~StrLess(SrcOfLine(InputsLines[k + 1]), SrcOfLine(InputsLines[k]))

Undeclared(tree) ==
    { p \in RegularFiles(tree) \ {ManifestPath} : ~DictHas(Declared(tree), PathStr(p)) }

\* The regular files of a tree whose digest is not the declared one.
Altered(tree) ==
    { p \in RegularFiles(tree) \ {ManifestPath} :
        /\ DictHas(Declared(tree), PathStr(p))
        /\ DictGet(Declared(tree), PathStr(p)) # calculate_file_hash(tree[p].content) }

\* C21: when verify_manifest has ended, a tree without a manifest got the
\* cause "manifest missing" whatever else it holds; a missing-file cause is
\* only reported for a tree with no undeclared and no altered file; and
\* success means that the manifest is there, nothing declared is missing and
\* no digest differs.
C21_PhaseOrder ==
    (ManifestChecked /\ vpc = "done") =>
        /\ ~Exists(dest.tree, ManifestPath) => vresult.error.cause = "manifest_missing"
        /\ vresult.error.cause = "missing_file" =>
              (Undeclared(dest.tree) = {} /\ Altered(dest.tree) = {})
        /\ vresult.manifest_verified =>
              /\ IsFile(dest.tree, ManifestPath)
              /\ Altered(dest.tree) = {}
              /\ \A i \in 1..Len(Declared(dest.tree)) :
                    \E p \in RegularFiles(dest.tree) : PathStr(p) = Declared(dest.tree)[i][1]

\* C22: while create_bundle copies the includes, everything in the staging
\* directory is at or below artifacts/ and nothing was written outside the
\* staging directory; and no member of an archive has a ".." segment in its
\* name.
C22_IncludeContainment ==
    /\ (pc = "artifacts" /\ stageExists) =>
          /\ \A p \in DOMAIN stage.tree : IsPrefix(ArtifactsDir, p)
          /\ stage.outside = {}
    /\ \A r \in {1, 2} : \A i \in 1..Len(bundle[r].members) :
          \A k \in 1..Len(Parts(bundle[r].members[i].name)) :
              Parts(bundle[r].members[i].name)[k] # DotDot

\* The number of regular files in the archive of the current build.
FilesWritten ==
    Cardinality({ i \in 1..Len(bundle[run].members) : bundle[run].members[i].type = "reg" })

\* C23: the file_count create_bundle returns is the number of files written
\* into the archive: the number of its regular files, or, with directories
\* counted as files, the number of its members.
C23_FileCount ==
    (pc = "done" /\ result[run].returned) =>
        \/ result[run].file_count = FilesWritten
        \/ result[run].file_count = Len(bundle[run].members)

=============================================================================
